---- MODULE Spec2Model ----
(***************************************************************************)
(* itk::LabelMap (Modules/Filtering/LabelMap/include/itkLabelMap.hxx):     *)
(* a sparse labelled-region container.  Two LabelMap instances ("A", "B")  *)
(* live over one heap of reference-counted LabelObjects, so that the       *)
(* aliasing produced by Graft and by inserting an already stored object is *)
(* part of the state.                                                      *)
(***************************************************************************)
EXTENDS Integers, FiniteSets, Sequences, TLC

\* ------------------------------------------------------------------ bounds
\* LabelType is an unsigned integral type with the values LabelMin..LabelMax
\* (NumericTraits<LabelType>::NonpositiveMin() and ::max()).
LabelMax == 3
\* positions (IndexType) are 0..MaxPos-1 along one axis
MaxPos == 2
\* most LabelObjects alive at once under Spec
MaxObj == 2
\* most keys of a container that disagree with the label of their object,
\* under Spec
MaxStale == 1

LabelMin == 0
Label == LabelMin..LabelMax
Pos == 0..(MaxPos - 1)
Maps == {"A", "B"}

\* m_LabelObjectContainer.end(), as an iterator position (iterators are keys)
END == -1
\* a null LabelObject pointer (object ids start at 1)
NULL == 0

VARIABLES
  heap,                    \* object id -> [label, idx]: the LabelObjects alive
  m_LabelObjectContainer,  \* map -> (label -> object id), a std::map per LabelMap
  m_BackgroundValue,       \* map -> label
  res                      \* the vectors a caller holds: what its last
                           \* GetLabels() and GetLabelObjects() returned

vars == <<heap, m_LabelObjectContainer, m_BackgroundValue, res>>

\* a caller that has asked for no vector yet
NoRes == [labels |-> <<>>, objects |-> <<>>]

\* ------------------------------------------------------------ arithmetic
\* LabelType arithmetic keeps the width of the type
Inc(l) == (l + 1) % (LabelMax + 1)
Dec(l) == (l + LabelMax) % (LabelMax + 1)
\* the same steps pass the end of the type's range
IncWraps(l) == l = LabelMax
DecWraps(l) == l = LabelMin

Min(S) == CHOOSE x \in S : \A y \in S : x <= y
Max(S) == CHOOSE x \in S : \A y \in S : x >= y

\* ------------------------------------------------ std::map<LabelType, ...>
Keys(c) == DOMAIN c
EmptyContainer == [k \in {} |-> NULL]
\* c.begin() and ++it: the smallest key, and the smallest key after it
Begin(c) == IF Keys(c) = {} THEN END ELSE Min(Keys(c))
Succ(c, it) ==
  LET after == {k \in Keys(c) : k > it}
  IN  IF after = {} THEN END ELSE Min(after)
\* c.find(label)
Find(c, label) == IF label \in Keys(c) THEN label ELSE END
\* c[label] = o
Insert(c, label, o) == [k \in Keys(c) \cup {label} |-> IF k = label THEN o ELSE c[k]]
\* c.erase(label)
Erase(c, label) == [k \in Keys(c) \ {label} |-> c[k]]
Range(c) == {c[k] : k \in Keys(c)}

\* ------------------------------------------------------------ LabelObject
\* LabelObjectType::New() followed by SetLabel / AddIndex / AddLine
NewId(h) == Min({i \in 1..(Cardinality(DOMAIN h) + 1) : i \notin DOMAIN h})
Alloc(h, o, label, idx) ==
  [i \in DOMAIN h \cup {o} |-> IF i = o THEN [label |-> label, idx |-> idx] ELSE h[i]]
HasIndex(h, o, idx) == idx \in h[o].idx
Empty(h, o) == h[o].idx = {}
GetLabel(h, o) == h[o].label
SetLabel(h, o, label) == [h EXCEPT ![o].label = label]
AddIndex(h, o, idx) == [h EXCEPT ![o].idx = @ \cup {idx}]
\* a run that is one position too long
Line_OneTooLong(idx, length) == {p \in Pos : idx <= p /\ p <= idx + length}
Line(idx, length) == {p \in Pos : idx <= p /\ p < idx + length}
AddLine(h, o, idx, length) == [h EXCEPT ![o].idx = @ \cup Line(idx, length)]
RemoveIndex(h, o, idx) == [h EXCEPT ![o].idx = @ \ {idx}]

\* --------------------------------------------------- the state of one call
\* h: heap, c: this map's container, mods: Modified() calls so far,
\* err: the exception that left the call ("none" if it returned),
\* ub: an invalidated iterator was used
St(h, c) ==
  [h |-> h, c |-> c, mods |-> 0, err |-> "none", ub |-> FALSE, visits |-> <<>>]
Modified(S) == [S EXCEPT !.mods = @ + 1]
Throw(S, e) == [S EXCEPT !.err = e]

\* -------------------------------------------------------- container calls
\* AddLabelObject(labelObject) that gives the object the positions of the
\* object it replaces
AddLabelObjectOp_Merges(S, o) ==
  IF o = NULL
  THEN Throw(S, "NullArgument")
  ELSE LET l == GetLabel(S.h, o)
           old == IF l \in Keys(S.c) THEN S.h[S.c[l]].idx ELSE {}
       IN  Modified([S EXCEPT !.c = Insert(S.c, l, o),
                              !.h = [S.h EXCEPT ![o].idx = @ \cup old]])

\* AddLabelObject(labelObject) that notifies before it refuses a null pointer
AddLabelObjectOp_NullNotifies(S, o) ==
  IF o = NULL
  THEN Throw(Modified(S), "NullArgument")
  ELSE Modified([S EXCEPT !.c = Insert(S.c, GetLabel(S.h, o), o)])

\* AddLabelObject(labelObject): m_LabelObjectContainer[label] = labelObject
AddLabelObjectOp(S, o) ==
  IF o = NULL
  THEN Throw(S, "NullArgument")
  ELSE Modified([S EXCEPT !.c = Insert(S.c, GetLabel(S.h, o), o)])

\* RemoveLabel(label) that erases the background label like any other
RemoveLabelOp_ErasesBackground(S, bg, label) ==
  Modified([S EXCEPT !.c = Erase(S.c, label)])

\* RemoveLabel(label) that notifies only when it erased an entry
RemoveLabelOp_QuietWhenAbsent(S, bg, label) ==
  IF bg = label
  THEN Throw(S, "BackgroundLabelAccess")
  ELSE IF Find(S.c, label) = END
       THEN S
       ELSE Modified([S EXCEPT !.c = Erase(S.c, label)])

\* RemoveLabel(label): throws on the background label, erases, Modified()
RemoveLabelOp(S, bg, label) ==
  IF bg = label
  THEN Throw(S, "BackgroundLabelAccess")
  ELSE Modified([S EXCEPT !.c = Erase(S.c, label)])

\* RemoveLabelObject(labelObject): erases by the label the object reports
RemoveLabelObjectOp(S, bg, o) ==
  IF o = NULL
  THEN Throw(S, "NullArgument")
  ELSE RemoveLabelOp(S, bg, GetLabel(S.h, o))

\* ClearLabels() that notifies whether or not something was stored
ClearLabelsOp_AlwaysNotifies(S) == Modified([S EXCEPT !.c = EmptyContainer])

\* ClearLabels(): Modified() only when something was stored
ClearLabelsOp(S) ==
  IF Keys(S.c) # {}
  THEN Modified([S EXCEPT !.c = EmptyContainer])
  ELSE S

\* Initialize() calls ClearLabels(); Allocate() calls Initialize()
InitializeOp(S) == ClearLabelsOp(S)
AllocateOp(S) == InitializeOp(S)

\* ---------------------------------------------------------- pixel engine
\* AddPixel(it, idx, label) that notifies without adding the index to an
\* object that already exists
AddPixelIt_NoAddIndex(S, bg, it, idx, label) ==
  IF label = bg
  THEN S
  ELSE IF it # END
       THEN Modified(S)
       ELSE LET o == NewId(S.h)
            IN  AddLabelObjectOp([S EXCEPT !.h = Alloc(S.h, o, label, {idx})], o)

\* AddPixel(it, idx, label)
AddPixelIt(S, bg, it, idx, label) ==
  IF label = bg
  THEN S
  ELSE IF it # END
       THEN Modified([S EXCEPT !.h = AddIndex(S.h, S.c[it], idx)])
       ELSE LET o == NewId(S.h)
            IN  AddLabelObjectOp([S EXCEPT !.h = Alloc(S.h, o, label, {idx})], o)

\* AddPixel(idx, label)
AddPixelOp(S, bg, idx, label) ==
  IF label = bg
  THEN S
  ELSE AddPixelIt(S, bg, Find(S.c, label), idx, label)

\* RemovePixel(it, idx, iEmitModifiedEvent) that leaves the index in place
RemovePixelIt_NoEviction(S, bg, it, idx, iEmitModifiedEvent) == S

\* RemovePixel(it, idx, iEmitModifiedEvent) that keeps an object whose last
\* index it removed
RemovePixelIt_KeepsEmpty(S, bg, it, idx, iEmitModifiedEvent) ==
  IF it = END
  THEN S
  ELSE LET o == S.c[it]
       IN  IF ~HasIndex(S.h, o, idx)
           THEN S
           ELSE LET S1 == [S EXCEPT !.h = RemoveIndex(S.h, o, idx)]
                IN  IF iEmitModifiedEvent THEN Modified(S1) ELSE S1

\* RemovePixel(it, idx, iEmitModifiedEvent)
RemovePixelIt(S, bg, it, idx, iEmitModifiedEvent) ==
  IF it = END
  THEN S
  ELSE LET o == S.c[it]
       IN  IF ~HasIndex(S.h, o, idx)
           THEN S
           ELSE LET S1 == [S EXCEPT !.h = RemoveIndex(S.h, o, idx)]
                    S2 == IF Empty(S1.h, o) THEN RemoveLabelObjectOp(S1, bg, o) ELSE S1
                IN  IF S2.err # "none"
                    THEN S2
                    ELSE IF iEmitModifiedEvent THEN Modified(S2) ELSE S2

\* RemovePixel(idx, label)
RemovePixelOp(S, bg, idx, label) ==
  IF label = bg
  THEN S
  ELSE RemovePixelIt(S, bg, Find(S.c, label), idx, TRUE)

\* SetLine(idx, length, label) without the test for the background label
SetLineOp_NoBackgroundTest(S, bg, idx, length, label) ==
  IF Find(S.c, label) # END
  THEN Modified([S EXCEPT !.h = AddLine(S.h, S.c[label], idx, length)])
  ELSE LET o == NewId(S.h)
       IN  AddLabelObjectOp([S EXCEPT !.h = Alloc(S.h, o, label, Line(idx, length))], o)

\* SetLine(idx, length, label)
SetLineOp(S, bg, idx, length, label) ==
  IF label = bg
  THEN S
  ELSE IF Find(S.c, label) # END
       THEN Modified([S EXCEPT !.h = AddLine(S.h, S.c[label], idx, length)])
       ELSE LET o == NewId(S.h)
            IN  AddLabelObjectOp([S EXCEPT !.h = Alloc(S.h, o, label, Line(idx, length))], o)

\* what a use of an invalidated std::map iterator can do in SetPixel's loop:
\* compare equal to end(), step to the following node, or fault
UBOutcomes == {"end", "next", "fault"}

\* one iteration of SetPixel's loop takes up the entry at it
Visit(S, it) == [S EXCEPT !.visits = Append(@, it)]

\* the while loop of SetPixel, from iterator position it
RECURSIVE SetPixelLoop(_, _, _, _, _, _, _)
SetPixelLoop(S, bg, it, newLabel, idx, iLabel, onUB) ==
  IF S.err # "none"
  THEN S
  ELSE IF it = END \/ (it \notin Keys(S.c) /\ onUB = "end")
  THEN LET S0 == [S EXCEPT !.ub = @ \/ (it # END)]
       IN  IF newLabel THEN AddPixelIt(S0, bg, END, idx, iLabel) ELSE S0
  ELSE IF it \notin Keys(S.c)
  THEN IF onUB = "fault"
       THEN Throw([S EXCEPT !.ub = TRUE], "fault")
       ELSE SetPixelLoop([S EXCEPT !.ub = TRUE], bg, Succ(S.c, it), newLabel, idx, iLabel, onUB)
  ELSE IF it # iLabel
  THEN LET tempIt == it
           next == Succ(S.c, it)
       IN  SetPixelLoop(RemovePixelIt(Visit(S, it), bg, tempIt, idx, iLabel = bg),
                        bg, next, newLabel, idx, iLabel, onUB)
  ELSE LET S1 == AddPixelIt(Visit(S, it), bg, it, idx, iLabel)
       IN  SetPixelLoop(S1, bg, Succ(S1.c, it), FALSE, idx, iLabel, onUB)

\* SetPixel(idx, iLabel)
SetPixelOp(S, bg, idx, iLabel, onUB) ==
  SetPixelLoop(S, bg, Begin(S.c), TRUE, idx, iLabel, onUB)

\* ------------------------------------------------------ label allocation
\* the for loop of PushLabelObject: candidates walk up from firstLabel in
\* lockstep with the keys; set = SetLabel(label) was reached (break);
\* wrapped = a label++ passed the maximum on the way
RECURSIVE PushScan(_, _, _, _, _)
PushScan(c, it, label, bg, wrapped) ==
  IF it = END
  THEN [label |-> label, set |-> FALSE, wrapped |-> wrapped]
  ELSE LET l1 == IF label = bg THEN Inc(label) ELSE label
           w1 == wrapped \/ (label = bg /\ IncWraps(label))
       IN  IF l1 # it
           THEN [label |-> l1, set |-> TRUE, wrapped |-> w1]
           ELSE PushScan(c, Succ(c, it), Inc(l1), bg, w1 \/ IncWraps(l1))

\* PushLabelObject's allocation without the "lastLabel + 1 != max" guard of
\* the second rule, so that lastLabel + 2 can wrap
PushLabel_NoOverflowGuard(c, bg) ==
  IF Keys(c) = {}
  THEN [label |-> IF bg = 0 THEN 1 ELSE 0, set |-> TRUE, full |-> FALSE,
        wrapped |-> FALSE]
  ELSE LET lastLabel == Max(Keys(c))
           firstLabel == Min(Keys(c))
       IN  IF lastLabel # LabelMax /\ Inc(lastLabel) # bg
           THEN [label |-> Inc(lastLabel), set |-> TRUE, full |-> FALSE,
                 wrapped |-> IncWraps(lastLabel)]
           ELSE IF lastLabel # LabelMax /\ Inc(Inc(lastLabel)) # bg
           THEN [label |-> Inc(Inc(lastLabel)), set |-> TRUE, full |-> FALSE,
                 wrapped |-> IncWraps(lastLabel) \/ IncWraps(Inc(lastLabel))]
           ELSE IF firstLabel # LabelMin /\ Dec(firstLabel) # bg
           THEN [label |-> Dec(firstLabel), set |-> TRUE, full |-> FALSE,
                 wrapped |-> DecWraps(firstLabel)]
           ELSE LET r == PushScan(c, Begin(c), firstLabel, bg, FALSE)
                IN  [label |-> r.label, set |-> r.set, full |-> r.label = lastLabel,
                     wrapped |-> r.wrapped]

\* PushLabelObject's allocation that gives an empty container the label 1
\* whatever the background value
PushLabel_EmptyAlwaysOne(c, bg) ==
  IF Keys(c) = {}
  THEN [label |-> 1, set |-> TRUE, full |-> FALSE, wrapped |-> FALSE]
  ELSE LET lastLabel == Max(Keys(c))
           firstLabel == Min(Keys(c))
       IN  IF lastLabel # LabelMax /\ Inc(lastLabel) # bg
           THEN [label |-> Inc(lastLabel), set |-> TRUE, full |-> FALSE,
                 wrapped |-> IncWraps(lastLabel)]
           ELSE IF lastLabel # LabelMax /\ Inc(lastLabel) # LabelMax
                   /\ Inc(Inc(lastLabel)) # bg
           THEN [label |-> Inc(Inc(lastLabel)), set |-> TRUE, full |-> FALSE,
                 wrapped |-> IncWraps(lastLabel) \/ IncWraps(Inc(lastLabel))]
           ELSE IF firstLabel # LabelMin /\ Dec(firstLabel) # bg
           THEN [label |-> Dec(firstLabel), set |-> TRUE, full |-> FALSE,
                 wrapped |-> DecWraps(firstLabel)]
           ELSE LET r == PushScan(c, Begin(c), firstLabel, bg, FALSE)
                IN  [label |-> r.label, set |-> r.set, full |-> r.label = lastLabel,
                     wrapped |-> r.wrapped]

\* the label PushLabelObject computes: label, whether SetLabel ran, and
\* whether "the label map is full" is thrown
PushLabel(c, bg) ==
  IF Keys(c) = {}
  THEN [label |-> IF bg = 0 THEN 1 ELSE 0, set |-> TRUE, full |-> FALSE,
        wrapped |-> FALSE]
  ELSE LET lastLabel == Max(Keys(c))
           firstLabel == Min(Keys(c))
       IN  IF lastLabel # LabelMax /\ Inc(lastLabel) # bg
           THEN [label |-> Inc(lastLabel), set |-> TRUE, full |-> FALSE,
                 wrapped |-> IncWraps(lastLabel)]
           ELSE IF lastLabel # LabelMax /\ Inc(lastLabel) # LabelMax
                   /\ Inc(Inc(lastLabel)) # bg
           THEN [label |-> Inc(Inc(lastLabel)), set |-> TRUE, full |-> FALSE,
                 wrapped |-> IncWraps(lastLabel) \/ IncWraps(Inc(lastLabel))]
           ELSE IF firstLabel # LabelMin /\ Dec(firstLabel) # bg
           THEN [label |-> Dec(firstLabel), set |-> TRUE, full |-> FALSE,
                 wrapped |-> DecWraps(firstLabel)]
           ELSE LET r == PushScan(c, Begin(c), firstLabel, bg, FALSE)
                IN  [label |-> r.label, set |-> r.set, full |-> r.label = lastLabel,
                     wrapped |-> r.wrapped]

\* PushLabelObject(labelObject)
PushLabelObjectOp(S, bg, o) ==
  IF o = NULL
  THEN Throw(S, "NullArgument")
  ELSE LET a == PushLabel(S.c, bg)
           S1 == IF a.set THEN [S EXCEPT !.h = SetLabel(S.h, o, a.label)] ELSE S
       IN  IF a.full
           THEN Throw(S1, "ContainerFull")
           ELSE AddLabelObjectOp(S1, o)

\* ---------------------------------------------------------------- queries
\* HasLabel(label)
HasLabel(c, bg, label) == label = bg \/ Find(c, label) # END

\* the objects of c that contain idx, by key
Owners(h, c, idx) == {k \in Keys(c) : HasIndex(h, c[k], idx)}

\* GetPixel(idx): the label reported by the first object, in key order,
\* that has idx; the background value when there is none
GetPixel(h, c, bg, idx) ==
  IF Owners(h, c, idx) = {}
  THEN bg
  ELSE GetLabel(h, c[Min(Owners(h, c, idx))])

\* GetLabelObject(label) that looks the label up before it tests for the
\* background label
GetLabelObjectOp_LookupFirst(S, bg, label) ==
  IF Find(S.c, label) # END
  THEN [st |-> S, ret |-> S.c[Find(S.c, label)]]
  ELSE IF bg = label
       THEN [st |-> Throw(S, "BackgroundLabelAccess"), ret |-> NULL]
       ELSE [st |-> Throw(S, "LabelNotFound"), ret |-> NULL]

\* GetLabelObject(label): the background label is refused before the lookup
GetLabelObjectOp(S, bg, label) ==
  IF bg = label
  THEN [st |-> Throw(S, "BackgroundLabelAccess"), ret |-> NULL]
  ELSE IF Find(S.c, label) = END
       THEN [st |-> Throw(S, "LabelNotFound"), ret |-> NULL]
       ELSE [st |-> S, ret |-> S.c[Find(S.c, label)]]

\* the ordinals a caller passes (SizeValueType is unsigned): every ordinal
\* of a full container, its count, and one past it
Ordinals == 0..(LabelMax + 2)

\* the for loop of GetNthLabelObject, from iterator position it with counter i
RECURSIVE GetNthLoop(_, _, _, _)
GetNthLoop(S, it, i, pos) ==
  IF it = END
  THEN [st |-> Throw(S, "IndexOutOfRange"), ret |-> NULL]
  ELSE IF i = pos
       THEN [st |-> S, ret |-> S.c[it]]
       ELSE GetNthLoop(S, Succ(S.c, it), i + 1, pos)

\* GetNthLabelObject(pos) whose counter starts at one
GetNthLabelObjectOp_CountsFromOne(S, pos) == GetNthLoop(S, Begin(S.c), 1, pos)

\* GetNthLabelObject(pos)
GetNthLabelObjectOp(S, pos) == GetNthLoop(S, Begin(S.c), 0, pos)

\* the for loop of GetLabelObject(idx), from iterator position it
RECURSIVE GetLabelObjectIdxLoop(_, _, _)
GetLabelObjectIdxLoop(S, it, idx) ==
  IF it = END
  THEN [st |-> Throw(S, "PositionNotFound"), ret |-> NULL]
  ELSE IF HasIndex(S.h, S.c[it], idx)
       THEN [st |-> S, ret |-> S.c[it]]
       ELSE GetLabelObjectIdxLoop(S, Succ(S.c, it), idx)

\* GetLabelObject(idx)
GetLabelObjectIdxOp(S, idx) == GetLabelObjectIdxLoop(S, Begin(S.c), idx)

\* GetLabels() whose loop puts each key in front of the vector
RECURSIVE GetLabelsLoop_Prepends(_, _, _)
GetLabelsLoop_Prepends(S, it, vec) ==
  IF it = END
  THEN [st |-> S, ret |-> vec]
  ELSE GetLabelsLoop_Prepends(S, Succ(S.c, it), <<it>> \o vec)

\* the for loop of GetLabels(), from iterator position it: push_back(it->first)
RECURSIVE GetLabelsLoop(_, _, _)
GetLabelsLoop(S, it, vec) ==
  IF it = END
  THEN [st |-> S, ret |-> vec]
  ELSE GetLabelsLoop(S, Succ(S.c, it), Append(vec, it))

\* GetLabels() that returns the keys in descending order
GetLabelsOp_Descending(S) == GetLabelsLoop_Prepends(S, Begin(S.c), <<>>)

\* GetLabels()
GetLabelsOp(S) == GetLabelsLoop(S, Begin(S.c), <<>>)

\* the for loop of GetLabelObjects(): push_back(it->second)
RECURSIVE GetLabelObjectsLoop(_, _, _)
GetLabelObjectsLoop(S, it, vec) ==
  IF it = END
  THEN [st |-> S, ret |-> vec]
  ELSE GetLabelObjectsLoop(S, Succ(S.c, it), Append(vec, S.c[it]))

\* GetLabelObjects()
GetLabelObjectsOp(S) == GetLabelObjectsLoop(S, Begin(S.c), <<>>)

\* ------------------------------------------------------------------ graft
\* Graft(data): data is another LabelMap, a null pointer, or a DataObject
\* that dynamic_cast does not accept
GraftSources == Maps \cup {"null", "other"}

\* Graft(data) that copies the container and leaves the background value
GraftOp_KeepsBackground(cs, bgs, m, data, superModified) ==
  LET mods == IF superModified /\ data # "null" THEN 1 ELSE 0
  IN  IF data = "null"
      THEN [c |-> cs[m], bg |-> bgs[m], mods |-> mods, err |-> "none"]
      ELSE IF data \in Maps
           THEN [c |-> cs[data], bg |-> bgs[m], mods |-> mods, err |-> "none"]
           ELSE [c |-> cs[m], bg |-> bgs[m], mods |-> mods,
                 err |-> "IncompatibleSourceType"]

\* Graft(data) that takes whatever it is given for an empty LabelMap with
\* background value zero
GraftOp_NoCast(cs, bgs, m, data, superModified) ==
  LET mods == IF superModified /\ data # "null" THEN 1 ELSE 0
  IN  IF data = "null"
      THEN [c |-> cs[m], bg |-> bgs[m], mods |-> mods, err |-> "none"]
      ELSE IF data \in Maps
           THEN [c |-> cs[data], bg |-> bgs[data], mods |-> mods, err |-> "none"]
           ELSE [c |-> EmptyContainer, bg |-> 0, mods |-> mods, err |-> "none"]

\* Graft(data) on map m of the containers cs and background values bgs.
\* Superclass::Graft(data) copies the image information and notifies or not
\* (superModified); Graft itself copies the container and the background
\* value of a LabelMap and never calls Modified().
GraftOp(cs, bgs, m, data, superModified) ==
  LET mods == IF superModified /\ data # "null" THEN 1 ELSE 0
  IN  IF data = "null"
      THEN [c |-> cs[m], bg |-> bgs[m], mods |-> mods, err |-> "none"]
      ELSE IF data \in Maps
           THEN [c |-> cs[data], bg |-> bgs[data], mods |-> mods, err |-> "none"]
           ELSE [c |-> cs[m], bg |-> bgs[m], mods |-> mods,
                 err |-> "IncompatibleSourceType"]

\* ---------------------------------------------------------------- actions
\* Object ids are names.  When a call ends, the objects no container refers
\* to are released (SmartPointer counts) and the others are named 1, 2, ...
\* in the order of their first reference (map "A" before "B", keys
\* ascending), so that states differing only in the names coincide.
Holder == Maps \cup {"res"}
Offset(m) == IF m = "A" THEN 0 ELSE IF m = "B" THEN LabelMax + 1 ELSE 2 * (LabelMax + 1)
Refs(cs, o) ==
  UNION {{Offset(m) + k : k \in {x \in Keys(cs[m]) : cs[m][x] = o}} : m \in DOMAIN cs}
FirstRef(cs, live) == [o \in live |-> Min(Refs(cs, o))]
Names(first) == [o \in DOMAIN first |-> Cardinality({x \in DOMAIN first : first[x] <= first[o]})]
\* the vector of objects a caller holds keeps its objects alive, as the
\* containers do, and comes after them in the order of the names
SettleHeld(h, cs, objs) ==
  LET all == [m \in Holder |-> IF m \in Maps THEN cs[m] ELSE objs]
      name == Names(FirstRef(all, {o \in DOMAIN h : Refs(all, o) # {}}))
  IN  [heap |-> [i \in 1..Cardinality(DOMAIN name) |->
                   h[CHOOSE o \in DOMAIN name : name[o] = i]],
       cs |-> [m \in Maps |-> [k \in Keys(cs[m]) |-> name[cs[m][k]]]],
       objects |-> [i \in DOMAIN objs |-> name[objs[i]]]]
SettleOp(h, cs) == SettleHeld(h, cs, res.objects)
\* what a call on map m that ends in state S of the call would leave if the
\* maps that hold a copy of m's container shared one container with m
ReturnOp_SharedContainer(m, S) ==
  LET shared == {x \in Maps : m_LabelObjectContainer[x] = m_LabelObjectContainer[m]}
      R == SettleOp(S.h, [x \in Maps |-> IF x \in shared THEN S.c
                                           ELSE m_LabelObjectContainer[x]])
  IN  [heap |-> R.heap, cs |-> R.cs, objects |-> R.objects, bgs |-> m_BackgroundValue]

\* what a call on map m that ends in state S of the call leaves: the
\* container of m as the call made it, the containers of the other maps and
\* every background value as they were
ReturnOp(m, S) ==
  LET R == SettleOp(S.h, [m_LabelObjectContainer EXCEPT ![m] = S.c])
  IN  [heap |-> R.heap, cs |-> R.cs, objects |-> R.objects, bgs |-> m_BackgroundValue]

\* a call on map m ends in state S of the call (also when an exception
\* leaves it: what the call did until then stays done)
Return(m, S) ==
  \E R \in {ReturnOp(m, S)} :
    /\ heap' = R.heap
    /\ m_LabelObjectContainer' = R.cs
    /\ m_BackgroundValue' = R.bgs
    /\ res' = [res EXCEPT !.objects = R.objects]

Enter(m) == St(heap, m_LabelObjectContainer[m])

\* the LabelObject a caller passes, with the heap that holds it: one that is
\* stored somewhere, a null pointer, or one it has just made, with a label
\* of labels and a region of regions
StoredArgs == {<<heap, o>> : o \in DOMAIN heap \cup {NULL}}
FreshArgs(labels, regions) ==
  {<<Alloc(heap, NewId(heap), l, ps), NewId(heap)>> : l \in labels, ps \in regions}
ObjectArgs == StoredArgs \cup FreshArgs(Label, SUBSET Pos)

SetPixel(m, idx, iLabel, onUB) ==
  Return(m, SetPixelOp(Enter(m), m_BackgroundValue[m], idx, iLabel, onUB))

AddPixel(m, idx, label) ==
  Return(m, AddPixelOp(Enter(m), m_BackgroundValue[m], idx, label))

RemovePixel(m, idx, label) ==
  Return(m, RemovePixelOp(Enter(m), m_BackgroundValue[m], idx, label))

SetLine(m, idx, length, label) ==
  Return(m, SetLineOp(Enter(m), m_BackgroundValue[m], idx, length, label))

AddLabelObject(m, arg) ==
  Return(m, AddLabelObjectOp(St(arg[1], m_LabelObjectContainer[m]), arg[2]))

PushLabelObject(m, arg) ==
  Return(m, PushLabelObjectOp(St(arg[1], m_LabelObjectContainer[m]),
                              m_BackgroundValue[m], arg[2]))

RemoveLabelObject(m, o) ==
  Return(m, RemoveLabelObjectOp(Enter(m), m_BackgroundValue[m], o))

RemoveLabel(m, label) ==
  Return(m, RemoveLabelOp(Enter(m), m_BackgroundValue[m], label))

ClearLabels(m) == Return(m, ClearLabelsOp(Enter(m)))

\* Initialize() calls ClearLabels()
Initialize(m) == Return(m, InitializeOp(Enter(m)))

\* Allocate() calls Initialize()
Allocate(m) == Return(m, AllocateOp(Enter(m)))

\* Optimize(): every object compacts its lines (its region is unchanged),
\* then Modified()
Optimize(m) == Return(m, Modified(Enter(m)))

\* GetLabelObject(label), GetNthLabelObject(pos), GetLabelObject(idx): a
\* query ends as it began
GetLabelObject(m, label) ==
  Return(m, GetLabelObjectOp(Enter(m), m_BackgroundValue[m], label).st)

GetNthLabelObject(m, pos) == Return(m, GetNthLabelObjectOp(Enter(m), pos).st)

GetLabelObjectIdx(m, idx) == Return(m, GetLabelObjectIdxOp(Enter(m), idx).st)

\* GetLabels(): the caller holds the vector returned, in place of the one it
\* held
GetLabels(m) ==
  /\ res' = [res EXCEPT !.labels = GetLabelsOp(Enter(m)).ret]
  /\ UNCHANGED <<heap, m_LabelObjectContainer, m_BackgroundValue>>

\* GetLabelObjects(): the caller holds the vector of references returned, in
\* place of the one it held, whose references are released
GetLabelObjects(m) ==
  \E R \in {SettleHeld(heap, m_LabelObjectContainer, GetLabelObjectsOp(Enter(m)).ret)} :
    /\ heap' = R.heap
    /\ m_LabelObjectContainer' = R.cs
    /\ res' = [res EXCEPT !.objects = R.objects]
    /\ UNCHANGED m_BackgroundValue

\* the state Graft(data) on map m ends in, with what the call notified and
\* threw
GraftResult(m, data, superModified) ==
  LET G == GraftOp(m_LabelObjectContainer, m_BackgroundValue, m, data, superModified)
      R == SettleOp(heap, [m_LabelObjectContainer EXCEPT ![m] = G.c])
  IN  [heap |-> R.heap, cs |-> R.cs, objects |-> R.objects,
       bgs |-> [m_BackgroundValue EXCEPT ![m] = G.bg],
       mods |-> G.mods, err |-> G.err]

\* Graft(data) on map m
Graft(m, data, superModified) ==
  \E R \in {GraftResult(m, data, superModified)} :
    /\ heap' = R.heap
    /\ m_LabelObjectContainer' = R.cs
    /\ m_BackgroundValue' = R.bgs
    /\ res' = [res EXCEPT !.objects = R.objects]

\* SetBackgroundValue(v)
SetBackgroundValue(m, v) ==
  /\ m_BackgroundValue' = [m_BackgroundValue EXCEPT ![m] = v]
  /\ UNCHANGED <<heap, m_LabelObjectContainer, res>>

\* ---------------------------------------------------------- specifications
\* LabelMap(): background value zero, Initialize()
Init ==
  /\ heap = [i \in {} |-> [label |-> 0, idx |-> {}]]
  /\ m_LabelObjectContainer = [m \in Maps |-> EmptyContainer]
  /\ m_BackgroundValue = [m \in Maps |-> 0]
  /\ res = NoRes

Lengths == 1..MaxPos

\* the keys of c whose object reports another label
Stale(h, c) == {k \in Keys(c) : GetLabel(h, c[k]) # k}

\* the bounds of Spec: at most MaxObj objects alive, and at most MaxStale
\* keys of a container that disagree with their object
Within ==
  /\ Cardinality(DOMAIN heap) <= MaxObj
  /\ \A m \in Maps : Cardinality(Stale(heap, m_LabelObjectContainer[m])) <= MaxStale

\* One LabelMap under every call of its interface.
Next ==
  \/ \E idx \in Pos, l \in Label, u \in UBOutcomes : SetPixel("A", idx, l, u) /\ Within'
  \/ \E idx \in Pos, l \in Label : AddPixel("A", idx, l) /\ Within'
  \/ \E idx \in Pos, l \in Label : RemovePixel("A", idx, l) /\ Within'
  \/ \E idx \in Pos, n \in Lengths, l \in Label : SetLine("A", idx, n, l) /\ Within'
  \/ \E arg \in ObjectArgs : AddLabelObject("A", arg) /\ Within'
  \/ \E arg \in ObjectArgs : PushLabelObject("A", arg) /\ Within'
  \/ \E o \in DOMAIN heap \cup {NULL} : RemoveLabelObject("A", o) /\ Within'
  \/ \E l \in Label : RemoveLabel("A", l) /\ Within'
  \/ ClearLabels("A")
  \/ Initialize("A")
  \/ Allocate("A")
  \/ Optimize("A")
  \/ \E data \in GraftSources, sm \in BOOLEAN : Graft("A", data, sm)
  \/ \E v \in Label : SetBackgroundValue("A", v)
  \/ \E l \in Label : GetLabelObject("A", l)
  \/ \E n \in Ordinals : GetNthLabelObject("A", n)
  \/ \E idx \in Pos : GetLabelObjectIdx("A", idx)

Spec == Init /\ [][Next]_vars

\* Only SetPixel, on two maps that start empty.
NextSetPixel ==
  \E m \in Maps, idx \in Pos, l \in Label, u \in UBOutcomes : SetPixel(m, idx, l, u)

SpecSetPixel == Init /\ [][NextSetPixel]_vars

\* The allocation of PushLabelObject from every key set and every background
\* value: map "A" holds one object per key of K (AddPixel(0, k) for each k of
\* K, then SetBackgroundValue(bg)), and objects are pushed onto it.
RankIn(K, k) == Cardinality({x \in K : x <= k})
InitPush ==
  \E K \in SUBSET Label, bg \in Label :
    /\ heap = [i \in 1..Cardinality(K) |->
                 [label |-> CHOOSE k \in K : RankIn(K, k) = i, idx |-> {0}]]
    /\ m_LabelObjectContainer =
         [m \in Maps |-> IF m = "A" THEN [k \in K |-> RankIn(K, k)] ELSE EmptyContainer]
    /\ m_BackgroundValue = [m \in Maps |-> IF m = "A" THEN bg ELSE 0]
    /\ res = NoRes

PushArgs == StoredArgs \cup FreshArgs(Label, {{0}})
NextPush == \E arg \in PushArgs : PushLabelObject("A", arg)

SpecPush == InitPush /\ [][NextPush]_vars

\* Two LabelMaps that graft each other: map "A" under the calls that add
\* and move positions, replace an entry by a new object and relabel a stored
\* object, map "B" holding what it grafted, with either background value.
NextGraft ==
  \/ \E idx \in Pos, l \in Label, u \in UBOutcomes : SetPixel("A", idx, l, u) /\ Within'
  \/ \E idx \in Pos, l \in Label : AddPixel("A", idx, l) /\ Within'
  \/ \E arg \in FreshArgs(Keys(m_LabelObjectContainer["A"]), {{0}}) :
       AddLabelObject("A", arg) /\ Within'
  \/ \E arg \in StoredArgs : PushLabelObject("A", arg) /\ Within'
  \/ \E m \in Maps, data \in GraftSources, sm \in BOOLEAN : Graft(m, data, sm)
  \/ \E v \in {LabelMin, LabelMax} : SetBackgroundValue("B", v)

SpecGraft == Init /\ [][NextGraft]_vars

\* One LabelMap whose caller keeps the vectors that GetLabels() and
\* GetLabelObjects() returned while it adds, moves and removes positions and
\* replaces entries.
NextVectors ==
  \/ \E idx \in Pos, l \in Label : AddPixel("A", idx, l) /\ Within'
  \/ \E idx \in Pos, l \in Label : RemovePixel("A", idx, l) /\ Within'
  \/ \E idx \in Pos, l \in Label, u \in UBOutcomes : SetPixel("A", idx, l, u) /\ Within'
  \/ \E arg \in FreshArgs(Label, {{0}}) : AddLabelObject("A", arg) /\ Within'
  \/ \E l \in Label : RemoveLabel("A", l)
  \/ ClearLabels("A")
  \/ GetLabels("A")
  \/ GetLabelObjects("A")

SpecVectors == Init /\ [][NextVectors]_vars

\* A LabelMap "B" that is filled and whose background value is set, and a
\* LabelMap "A" that grafts it and is then changed by every call that
\* changes a container, at position 0 and with the labels below the maximum.
NextIsolation ==
  \/ \E l \in Label \ {LabelMax} : AddPixel("B", 0, l) /\ Within'
  \/ SetBackgroundValue("B", LabelMax)
  \/ \E sm \in BOOLEAN : Graft("A", "B", sm)
  \/ \E l \in Label \ {LabelMax}, u \in UBOutcomes : SetPixel("A", 0, l, u) /\ Within'
  \/ \E l \in Label \ {LabelMax} : AddPixel("A", 0, l) /\ Within'
  \/ \E l \in Label \ {LabelMax} : RemovePixel("A", 0, l) /\ Within'
  \/ \E l \in Label \ {LabelMax} : SetLine("A", 0, 1, l) /\ Within'
  \/ \E arg \in StoredArgs : AddLabelObject("A", arg) /\ Within'
  \/ \E arg \in StoredArgs : PushLabelObject("A", arg) /\ Within'
  \/ \E l \in Label \ {LabelMax} : RemoveLabel("A", l) /\ Within'
  \/ ClearLabels("A")

SpecIsolation == Init /\ [][NextIsolation]_vars

\* ------------------------------------------------------------------ claims
\* the result of PushLabelObject(arg) on map m from the current state
Pushed(m, arg) ==
  PushLabelObjectOp(St(arg[1], m_LabelObjectContainer[m]), m_BackgroundValue[m], arg[2])

\* the call returned and left object o stored under key l, reporting l
StoredUnder(S, o, l) ==
  /\ S.err = "none"
  /\ GetLabel(S.h, o) = l
  /\ l \in Keys(S.c)
  /\ S.c[l] = o

\* I1 for one container
BackgroundNotKey(m) == m_BackgroundValue[m] \notin Keys(m_LabelObjectContainer[m])

\* C1: in every reachable state the background value is not a key of the
\* container (I1).
C1_BackgroundExclusion == \A m \in Maps : BackgroundNotKey(m)

\* every value of the label type but the background value is a key
Exhausted(c, bg) == Keys(c) # {} /\ \A l \in Label \ {bg} : l \in Keys(c)

\* C2: on a non-empty container in which every value other than the
\* background value is a key, PushLabelObject fails with ContainerFull and
\* leaves the container as it was.
C2_ExhaustionFails ==
  \A arg \in ObjectArgs :
    (arg[2] # NULL /\ Exhausted(m_LabelObjectContainer["A"], m_BackgroundValue["A"]))
      => /\ Pushed("A", arg).err = "ContainerFull"
         /\ Pushed("A", arg).c = m_LabelObjectContainer["A"]

\* C3: from a state where I1 holds, a PushLabelObject that returns, for an
\* object not yet in the container, stores it under a label that was no key
\* and is not the background value, keeps every entry, and adds exactly one.
C3_PushUnusedLabel ==
  \A m \in Maps : \A arg \in ObjectArgs :
    LET c == m_LabelObjectContainer[m]
        S == Pushed(m, arg)
        o == arg[2]
    IN  (o # NULL /\ o \notin Range(c) /\ BackgroundNotKey(m) /\ S.err = "none")
          => /\ StoredUnder(S, o, GetLabel(S.h, o))
             /\ GetLabel(S.h, o) \notin Keys(c)
             /\ GetLabel(S.h, o) # m_BackgroundValue[m]
             /\ \A k \in Keys(c) : k \in Keys(S.c) /\ S.c[k] = c[k]
             /\ Cardinality(Keys(S.c)) = Cardinality(Keys(c)) + 1

\* C4: in every reachable state each key equals the label its object
\* reports (I2).
C4_KeyLabelAgreement ==
  \A m \in Maps : \A k \in Keys(m_LabelObjectContainer[m]) :
    GetLabel(heap, m_LabelObjectContainer[m][k]) = k

\* C5: in every reachable state each stored object owns at least one
\* position (I4).
C5_NonEmptiness ==
  \A m \in Maps : \A k \in Keys(m_LabelObjectContainer[m]) :
    ~Empty(heap, m_LabelObjectContainer[m][k])

\* C6: along SetPixel calls from empty maps, each position is contained in
\* at most one label object.
C6_SetPixelDisjoint ==
  \A m \in Maps : \A p \in Pos :
    Cardinality(Owners(heap, m_LabelObjectContainer[m], p)) <= 1

\* C6 witness: SetPixel calls have given every position of map "A" an owner,
\* under two labels.
C6_Witness ==
  /\ Cardinality(Keys(m_LabelObjectContainer["A"])) = 2
  /\ \A p \in Pos : Cardinality(Owners(heap, m_LabelObjectContainer["A"], p)) = 1

\* the allocation rules as the specification words them, on the integers
LastKey(c) == Max(Keys(c))
FirstKey(c) == Min(Keys(c))
RuleA(c, bg) == LastKey(c) # LabelMax /\ LastKey(c) + 1 # bg
RuleBAsClaimed(c, bg) == LastKey(c) + 1 <= LabelMax /\ LastKey(c) + 2 # bg
RuleB(c, bg) == LastKey(c) + 2 <= LabelMax /\ LastKey(c) + 2 # bg
RuleC(c, bg) == FirstKey(c) # LabelMin /\ FirstKey(c) - 1 # bg

\* C7 as claimed: rule b is "last+2 if last+1 does not pass max and
\* last+2 # bg".
C7_PriorityAsClaimed ==
  \A arg \in ObjectArgs :
    LET c == m_LabelObjectContainer["A"]
        bg == m_BackgroundValue["A"]
        S == Pushed("A", arg)
    IN  (arg[2] # NULL /\ Keys(c) # {})
          => /\ RuleA(c, bg) => StoredUnder(S, arg[2], LastKey(c) + 1)
             /\ (~RuleA(c, bg) /\ RuleBAsClaimed(c, bg))
                  => StoredUnder(S, arg[2], LastKey(c) + 2)
             /\ (~RuleA(c, bg) /\ ~RuleBAsClaimed(c, bg) /\ RuleC(c, bg))
                  => StoredUnder(S, arg[2], FirstKey(c) - 1)

\* C7: on a non-empty container PushLabelObject assigns last+1 if
\* last # max and last+1 # bg; otherwise last+2 if last+2 does not pass max
\* and last+2 # bg; otherwise first-1 if first # min and first-1 # bg.
C7_Priority ==
  \A arg \in ObjectArgs :
    LET c == m_LabelObjectContainer["A"]
        bg == m_BackgroundValue["A"]
        S == Pushed("A", arg)
    IN  (arg[2] # NULL /\ Keys(c) # {})
          => /\ RuleA(c, bg) => StoredUnder(S, arg[2], LastKey(c) + 1)
             /\ (~RuleA(c, bg) /\ RuleB(c, bg))
                  => StoredUnder(S, arg[2], LastKey(c) + 2)
             /\ (~RuleA(c, bg) /\ ~RuleB(c, bg) /\ RuleC(c, bg))
                  => StoredUnder(S, arg[2], FirstKey(c) - 1)

\* C7 witness: rule a does not apply because last+1 is the maximum and the
\* background value, rule c does, and a push stores the object under first-1.
C7_Witness ==
  LET c == m_LabelObjectContainer["A"]
      bg == m_BackgroundValue["A"]
  IN  /\ Keys(c) # {}
      /\ LastKey(c) + 1 = LabelMax
      /\ bg = LabelMax
      /\ RuleC(c, bg)
      /\ \E arg \in ObjectArgs :
           arg[2] # NULL /\ StoredUnder(Pushed("A", arg), arg[2], FirstKey(c) - 1)

\* none of the rules a, b, c applies and a value between first and last is
\* neither a key nor the background value
ScanCase(c, bg) ==
  /\ Keys(c) # {}
  /\ ~RuleA(c, bg) /\ ~RuleB(c, bg) /\ ~RuleC(c, bg)
  /\ \E l \in FirstKey(c)..LastKey(c) : l # bg /\ l \notin Keys(c)

\* C8: in the scan case PushLabelObject assigns the smallest value greater
\* than first that is neither a key nor the background value.
C8_ScanSmallestGap ==
  \A arg \in ObjectArgs :
    LET c == m_LabelObjectContainer["A"]
        bg == m_BackgroundValue["A"]
    IN  (arg[2] # NULL /\ ScanCase(c, bg))
          => StoredUnder(Pushed("A", arg), arg[2],
                         Min({l \in Label : l > FirstKey(c) /\ l \notin Keys(c) /\ l # bg}))

\* C9: on an empty container PushLabelObject assigns 1 when the background
\* value is 0 and 0 otherwise; on the map {1} with background 0 it assigns 2.
C9_EmptyAllocation ==
  \A arg \in ObjectArgs :
    LET c == m_LabelObjectContainer["A"]
        bg == m_BackgroundValue["A"]
        S == Pushed("A", arg)
    IN  arg[2] # NULL
          => /\ Keys(c) = {} => StoredUnder(S, arg[2], IF bg = 0 THEN 1 ELSE 0)
             /\ (Keys(c) = {1} /\ bg = 0) => StoredUnder(S, arg[2], 2)

\* C9 witness: an empty map whose background value is not 0, on which a push
\* stores the object under 0.
C9_Witness ==
  /\ Keys(m_LabelObjectContainer["A"]) = {}
  /\ m_BackgroundValue["A"] # 0
  /\ \E arg \in ObjectArgs : arg[2] # NULL /\ StoredUnder(Pushed("A", arg), arg[2], 0)

\* the result of AddPixel(idx, label) on map m from the current state
Added(m, idx, label) == AddPixelOp(Enter(m), m_BackgroundValue[m], idx, label)

\* C10 as claimed: after AddPixel(p, L) with L # bg, GetPixel(p) = L and
\* HasLabel(L).
C10_RoundTripAsClaimed ==
  \A m \in Maps : \A p \in Pos : \A l \in Label \ {m_BackgroundValue[m]} :
    LET S == Added(m, p, l)
    IN  /\ GetPixel(S.h, S.c, m_BackgroundValue[m], p) = l
        /\ HasLabel(S.c, m_BackgroundValue[m], l)

\* C10: after AddPixel(p, L) with L # bg, HasLabel(L) holds and the object
\* stored under L contains p; GetPixel(p) = L when no object under a smaller
\* key contained p before the call and the object under L reports L.
C10_RoundTrip ==
  \A m \in Maps : \A p \in Pos : \A l \in Label \ {m_BackgroundValue[m]} :
    LET S == Added(m, p, l)
        bg == m_BackgroundValue[m]
    IN  /\ S.err = "none"
        /\ HasLabel(S.c, bg, l)
        /\ l \in Keys(S.c)
        /\ HasIndex(S.h, S.c[l], p)
        /\ ((\A k \in Owners(heap, m_LabelObjectContainer[m], p) : k >= l)
              /\ GetLabel(S.h, S.c[l]) = l)
             => GetPixel(S.h, S.c, bg, p) = l

\* C10 witness: label L is a key whose object reports L and lacks p, p
\* belongs to an object under a larger key, and AddPixel(p, L) makes
\* GetPixel(p) = L.
C10_Witness ==
  \E p \in Pos : \E l \in Keys(m_LabelObjectContainer["A"]) :
    LET c == m_LabelObjectContainer["A"]
        bg == m_BackgroundValue["A"]
        S == Added("A", p, l)
    IN  /\ l # bg
        /\ GetLabel(heap, c[l]) = l
        /\ ~HasIndex(heap, c[l], p)
        /\ Owners(heap, c, p) # {}
        /\ \A k \in Owners(heap, c, p) : k > l
        /\ GetPixel(heap, c, bg, p) # l
        /\ GetPixel(S.h, S.c, bg, p) = l

\* the result of RemovePixel(idx, label) on map m after the call that ended
\* in S
RemovedAfter(m, S, idx, label) ==
  RemovePixelOp(St(S.h, S.c), m_BackgroundValue[m], idx, label)

\* AddPixel(p, l) on map m returned and left exactly the position p in the
\* object under l
HoldsOnly(S, p, l) ==
  /\ S.err = "none"
  /\ l \in Keys(S.c)
  /\ S.h[S.c[l]].idx = {p}

\* C11 as claimed: after AddPixel(p, L) then RemovePixel(p, L) with L # bg,
\* if L's region held exactly p, L is no key and GetPixel(p) = bg.
C11_RemovalCleansUpAsClaimed ==
  \A m \in Maps : \A p \in Pos : \A l \in Label \ {m_BackgroundValue[m]} :
    LET S1 == Added(m, p, l)
        S2 == RemovedAfter(m, S1, p, l)
    IN  HoldsOnly(S1, p, l)
          => /\ l \notin Keys(S2.c)
             /\ GetPixel(S2.h, S2.c, m_BackgroundValue[m], p) = m_BackgroundValue[m]

\* C11: after AddPixel(p, L) then RemovePixel(p, L) with L # bg, if L's
\* region held exactly p, the object that was under L is empty; when
\* RemovePixel returns and that object reports L, L is no key; and
\* GetPixel(p) = bg when, in addition, no object under another key contained
\* p before the calls.
C11_RemovalCleansUp ==
  \A m \in Maps : \A p \in Pos : \A l \in Label \ {m_BackgroundValue[m]} :
    LET c == m_LabelObjectContainer[m]
        bg == m_BackgroundValue[m]
        S1 == Added(m, p, l)
        S2 == RemovedAfter(m, S1, p, l)
    IN  HoldsOnly(S1, p, l)
          => /\ Empty(S2.h, S1.c[l])
             /\ (S2.err = "none" /\ GetLabel(S2.h, S1.c[l]) = l)
                  => /\ l \notin Keys(S2.c)
                     /\ Owners(heap, c, p) \subseteq {l} => GetPixel(S2.h, S2.c, bg, p) = bg

\* C11 witness: next to another stored object, AddPixel(p, L) makes an
\* object that holds exactly p, and RemovePixel(p, L) deletes it and leaves
\* GetPixel(p) = bg.
C11_Witness ==
  \E p \in Pos : \E l \in Label \ {m_BackgroundValue["A"]} :
    LET c == m_LabelObjectContainer["A"]
        bg == m_BackgroundValue["A"]
        S1 == Added("A", p, l)
        S2 == RemovedAfter("A", S1, p, l)
    IN  /\ Keys(c) \ {l} # {}
        /\ HoldsOnly(S1, p, l)
        /\ S2.err = "none"
        /\ l \notin Keys(S2.c)
        /\ Keys(S2.c) # {}
        /\ GetPixel(S2.h, S2.c, bg, p) = bg

\* the result of SetPixel(idx, iLabel) on map m from the current state
SetPixelled(m, idx, iLabel, onUB) ==
  SetPixelOp(Enter(m), m_BackgroundValue[m], idx, iLabel, onUB)

\* the objects of map m, stored under a key other than l, that contain p
OtherHolders(m, p, l) ==
  {m_LabelObjectContainer[m][k] : k \in Owners(heap, m_LabelObjectContainer[m], p) \ {l}}

\* C12: a SetPixel(p, L) with L # bg that returns has notified exactly once
\* (the add; the removals from the other objects are silent, also when they
\* delete an object), and a SetPixel(p, bg) has notified at least once for
\* each object it removed p from.
C12_SetPixelNotifications ==
  \A m \in Maps : \A p \in Pos : \A l \in Label : \A u \in UBOutcomes :
    LET S == SetPixelled(m, p, l, u)
    IN  S.err = "none"
          => IF l # m_BackgroundValue[m]
             THEN S.mods = 1
             ELSE S.mods >= Cardinality(OtherHolders(m, p, l))

\* the call on map m that ended in S changed the key set, the object under
\* a key, or the positions of an object that was stored
Changed(m, S) ==
  \/ S.c # m_LabelObjectContainer[m]
  \/ \E o \in Range(m_LabelObjectContainer[m]) : S.h[o].idx # heap[o].idx

\* a call that returned and changed something has notified
Notified(m, S) == (S.err = "none" /\ Changed(m, S)) => S.mods >= 1

\* the result of Graft(data) on map m from the current state
Grafted(m, data, superModified) ==
  GraftOp(m_LabelObjectContainer, m_BackgroundValue, m, data, superModified)

\* the mutating calls of the container other than Graft notify what they
\* change
NotifiedByContainerCalls(m) ==
  LET bg == m_BackgroundValue[m]
      c == m_LabelObjectContainer[m]
  IN  /\ \A p \in Pos : \A l \in Label :
           /\ \A u \in UBOutcomes : Notified(m, SetPixelled(m, p, l, u))
           /\ Notified(m, Added(m, p, l))
           /\ Notified(m, RemovePixelOp(Enter(m), bg, p, l))
           /\ \A n \in Lengths : Notified(m, SetLineOp(Enter(m), bg, p, n, l))
      /\ \A arg \in ObjectArgs :
           /\ Notified(m, AddLabelObjectOp(St(arg[1], c), arg[2]))
           /\ Notified(m, Pushed(m, arg))
      /\ \A l \in Label : Notified(m, RemoveLabelOp(Enter(m), bg, l))
      /\ Notified(m, ClearLabelsOp(Enter(m)))

\* C13: every mutating call (SetPixel, AddPixel, RemovePixel, SetLine,
\* AddLabelObject, PushLabelObject, RemoveLabel, ClearLabels, Graft) that
\* returns having changed the key set, the object under a key, an object's
\* positions or the background value has notified at least once.
C13_ChangeNotifies ==
  \A m \in Maps :
    /\ NotifiedByContainerCalls(m)
    /\ \A data \in GraftSources : \A sm \in BOOLEAN :
         LET G == Grafted(m, data, sm)
         IN  (G.err = "none"
                /\ (G.c # m_LabelObjectContainer[m] \/ G.bg # m_BackgroundValue[m]))
               => G.mods >= 1

\* map d holds in R what it holds now: the same keys, objects with the same
\* label and positions, shared between keys as now, and the same background
\* value
SameMapping(R, d) ==
  LET c == m_LabelObjectContainer[d]
      cn == R.cs[d]
  IN  /\ Keys(cn) = Keys(c)
      /\ \A k \in Keys(c) : R.heap[cn[k]] = heap[c[k]]
      /\ \A k1, k2 \in Keys(c) : (cn[k1] = cn[k2]) <=> (c[k1] = c[k2])
      /\ R.bgs[d] = m_BackgroundValue[d]

\* C14: m.Graft(d) with d a LabelMap returns and leaves m with the keys of
\* d, under each key the very object d stores there, and the background
\* value of d, and leaves d's mapping and background value as they were.
C14_GraftReplaces ==
  \A m \in Maps : \A d \in Maps : \A sm \in BOOLEAN :
    LET R == GraftResult(m, d, sm)
    IN  /\ R.err = "none"
        /\ R.cs[m] = R.cs[d]
        /\ R.bgs[m] = R.bgs[d]
        /\ SameMapping(R, d)

\* C14 witness: map "A" holds an object that map "B" does not, map "B"
\* holds two entries and another background value, and A.Graft(B) leaves
\* "A" with the entries and the background value of "B".
C14_Witness ==
  LET R == GraftResult("A", "B", FALSE)
  IN  /\ Range(m_LabelObjectContainer["A"]) \ Range(m_LabelObjectContainer["B"]) # {}
      /\ Cardinality(Keys(m_LabelObjectContainer["B"])) = 2
      /\ m_BackgroundValue["A"] # m_BackgroundValue["B"]
      /\ R.cs["A"] = R.cs["B"]
      /\ Keys(R.cs["A"]) = Keys(m_LabelObjectContainer["B"])
      /\ R.bgs["A"] = m_BackgroundValue["B"]

\* the objects map "A" holds after A.Graft(B), in the names of this state
\* (Graft assigns the container of "B")
AfterGraft == Grafted("A", "B", FALSE)

\* after A.Graft(B), a call on "A" that ended in S, about the entry of "B"
\* under l: S stores under l the object of "B"
StillShared(S, l) ==
  /\ l \in Keys(S.c)
  /\ S.c[l] = m_LabelObjectContainer["B"][l]

\* C15: after A.Graft(B), for every label l of "B" other than the
\* background value, AddPixel(p, l), SetPixel(p, l) and SetLine(p, n, l) on
\* "A" put their positions in the object "B" stores under l, and
\* RemovePixel(p, l) takes p out of it; AddLabelObject on "A" of a new
\* object labelled l leaves the entry of "B" and its positions as they were.
C15_GraftAliasing ==
  \A l \in Keys(m_LabelObjectContainer["B"]) \ {m_BackgroundValue["B"]} : \A p \in Pos :
    LET G == AfterGraft
        o == m_LabelObjectContainer["B"][l]
        Sa == AddPixelOp(St(heap, G.c), G.bg, p, l)
        Sr == RemovePixelOp(St(heap, G.c), G.bg, p, l)
    IN  /\ Sa.err = "none" => HasIndex(Sa.h, o, p)
        /\ Sr.err = "none" => ~HasIndex(Sr.h, o, p)
        /\ \A u \in UBOutcomes :
             LET Ss == SetPixelOp(St(heap, G.c), G.bg, p, l, u)
             IN  Ss.err = "none" => HasIndex(Ss.h, o, p)
        /\ \A n \in Lengths :
             LET Sl == SetLineOp(St(heap, G.c), G.bg, p, n, l)
             IN  Sl.err = "none" => Line(p, n) \subseteq Sl.h[o].idx
        /\ \A arg \in FreshArgs({l}, SUBSET Pos) :
             LET Sn == AddLabelObjectOp(St(arg[1], G.c), arg[2])
             IN  /\ Sn.c[l] = arg[2]
                 /\ Sn.c[l] # o
                 /\ Sn.h[o] = heap[o]

\* C16: Graft of a DataObject that is not a LabelMap fails with
\* IncompatibleSourceType and leaves the mapping and the background value of
\* every map as they were.
C16_GraftIncompatible ==
  \A m \in Maps : \A sm \in BOOLEAN :
    LET R == GraftResult(m, "other", sm)
    IN  /\ R.err = "IncompatibleSourceType"
        /\ R.heap = heap
        /\ R.cs = m_LabelObjectContainer
        /\ R.bgs = m_BackgroundValue

\* C16 witness: map "A" holds two objects and a background value other than
\* zero, and Graft of an incompatible source fails on it.
C16_Witness ==
  /\ Cardinality(Range(m_LabelObjectContainer["A"])) = 2
  /\ m_BackgroundValue["A"] # 0
  /\ GraftResult("A", "other", FALSE).err = "IncompatibleSourceType"
  /\ GraftResult("A", "other", FALSE).cs["A"] = m_LabelObjectContainer["A"]

\* the call that ended in S returned, changed nothing and notified nothing
NoOp(m, S) ==
  /\ S.err = "none"
  /\ S.c = m_LabelObjectContainer[m]
  /\ S.h = heap
  /\ S.mods = 0

\* C17: AddPixel, RemovePixel and SetLine with the background label return
\* without error, leave the container and every object as they were, and
\* notify nothing.
C17_BackgroundNoOps ==
  \A m \in Maps : \A p \in Pos :
    LET bg == m_BackgroundValue[m]
    IN  /\ NoOp(m, AddPixelOp(Enter(m), bg, p, bg))
        /\ NoOp(m, RemovePixelOp(Enter(m), bg, p, bg))
        /\ \A n \in Lengths : NoOp(m, SetLineOp(Enter(m), bg, p, n, bg))

\* C17 witness: the map holds an object under another label whose positions
\* a line would extend, the background value is not zero and is no key, and
\* the three calls with the background label are no-ops.
C17_Witness ==
  LET bg == m_BackgroundValue["A"]
      c == m_LabelObjectContainer["A"]
  IN  /\ bg # 0
      /\ bg \notin Keys(c)
      /\ \E k \in Keys(c) : heap[c[k]].idx # Pos
      /\ \E p \in Pos :
           /\ NoOp("A", AddPixelOp(Enter("A"), bg, p, bg))
           /\ NoOp("A", RemovePixelOp(Enter("A"), bg, p, bg))
           /\ NoOp("A", SetLineOp(Enter("A"), bg, p, MaxPos, bg))

\* the query that ended in S left the container and the objects as they were
Unchanged(m, S) == S.c = m_LabelObjectContainer[m] /\ S.h = heap /\ S.mods = 0

\* C18: GetLabelObject(label) fails with BackgroundLabelAccess when label is
\* the background value, key or not; fails with LabelNotFound when label is
\* another value that is no key; otherwise returns the object stored under
\* label; and leaves the container unchanged in the three cases.
C18_GetLabelObject ==
  \A m \in Maps : \A l \in Label :
    LET c == m_LabelObjectContainer[m]
        r == GetLabelObjectOp(Enter(m), m_BackgroundValue[m], l)
    IN  /\ Unchanged(m, r.st)
        /\ IF l = m_BackgroundValue[m]
           THEN r.st.err = "BackgroundLabelAccess"
           ELSE IF l \notin Keys(c)
                THEN r.st.err = "LabelNotFound"
                ELSE r.st.err = "none" /\ r.ret = c[l]

\* C18 witness: the background value is a key, another key is stored and a
\* third value is not, and GetLabelObject fails on the first, returns the
\* object of the second and fails on the third.
C18_Witness ==
  LET c == m_LabelObjectContainer["A"]
      bg == m_BackgroundValue["A"]
  IN  /\ bg \in Keys(c)
      /\ GetLabelObjectOp(Enter("A"), bg, bg).st.err = "BackgroundLabelAccess"
      /\ \E l \in Keys(c) \ {bg} :
           /\ GetLabelObjectOp(Enter("A"), bg, l).st.err = "none"
           /\ GetLabelObjectOp(Enter("A"), bg, l).ret = c[l]
      /\ \E l \in Label \ (Keys(c) \cup {bg}) :
           GetLabelObjectOp(Enter("A"), bg, l).st.err = "LabelNotFound"

\* C19: GetNthLabelObject(n) returns the object stored under the (n+1)-th
\* smallest key when n is less than the number of keys, and fails with
\* IndexOutOfRange for every other n; the container is unchanged.
C19_GetNthLabelObject ==
  \A m \in Maps : \A n \in Ordinals :
    LET c == m_LabelObjectContainer[m]
        r == GetNthLabelObjectOp(Enter(m), n)
    IN  /\ Unchanged(m, r.st)
        /\ IF n < Cardinality(Keys(c))
           THEN /\ r.st.err = "none"
                /\ \E k \in Keys(c) : RankIn(Keys(c), k) = n + 1 /\ r.ret = c[k]
           ELSE r.st.err = "IndexOutOfRange"

\* C19 witness: two objects under two keys; ordinal 0 gives the object of
\* the smaller key, ordinal 1 that of the larger, ordinal 2 fails.
C19_Witness ==
  LET c == m_LabelObjectContainer["A"]
  IN  /\ Cardinality(Keys(c)) = 2
      /\ Cardinality(Range(c)) = 2
      /\ GetNthLabelObjectOp(Enter("A"), 0).ret = c[Min(Keys(c))]
      /\ GetNthLabelObjectOp(Enter("A"), 1).ret = c[Max(Keys(c))]
      /\ GetNthLabelObjectOp(Enter("A"), 2).st.err = "IndexOutOfRange"

\* C20: GetPixel(p) is the label of the object with the smallest key among
\* those that contain p, and is the background value exactly when no object
\* contains p; GetLabelObject(p) fails with PositionNotFound exactly when no
\* object contains p and otherwise returns that smallest-key object.
C20_PositionQueries ==
  \A m \in Maps : \A p \in Pos :
    LET c == m_LabelObjectContainer[m]
        bg == m_BackgroundValue[m]
        O == Owners(heap, c, p)
        r == GetLabelObjectIdxOp(Enter(m), p)
    IN  /\ O # {} => GetPixel(heap, c, bg, p) = GetLabel(heap, c[Min(O)])
        /\ (GetPixel(heap, c, bg, p) = bg) <=> (O = {})
        /\ (r.st.err = "PositionNotFound") <=> (O = {})
        /\ O # {} => (r.st.err = "none" /\ r.ret = c[Min(O)])

\* the result of AddLabelObject(arg) on map m from the current state
Inserted(m, arg) == AddLabelObjectOp(St(arg[1], m_LabelObjectContainer[m]), arg[2])

\* C21: AddLabelObject(o) with the label L of o already a key returns with L
\* mapped to o, o holding the positions it came with (none taken over from
\* the object that was under L), and every other key mapped to the object it
\* had, unchanged.
C21_AddLabelObjectOverwrites ==
  \A m \in Maps : \A arg \in ObjectArgs :
    LET c == m_LabelObjectContainer[m]
        o == arg[2]
        S == Inserted(m, arg)
    IN  (o # NULL /\ GetLabel(arg[1], o) \in Keys(c))
          => LET l == GetLabel(arg[1], o)
             IN  /\ S.err = "none"
                 /\ Keys(S.c) = Keys(c)
                 /\ S.c[l] = o
                 /\ S.h[o] = arg[1][o]
                 /\ \A k \in Keys(c) \ {l} : S.c[k] = c[k] /\ S.h[c[k]] = heap[c[k]]

\* C21 witness: label L is a key whose object holds a position that a new
\* object labelled L lacks, another key is stored, and AddLabelObject of the
\* new object leaves L without that position.
C21_Witness ==
  \E arg \in FreshArgs(Keys(m_LabelObjectContainer["A"]), SUBSET Pos) :
    LET c == m_LabelObjectContainer["A"]
        l == GetLabel(arg[1], arg[2])
        S == Inserted("A", arg)
    IN  /\ Keys(c) \ {l} # {}
        /\ heap[c[l]].idx \ arg[1][arg[2]].idx # {}
        /\ S.c[l] = arg[2]
        /\ S.h[S.c[l]].idx = arg[1][arg[2]].idx

\* the call that ended in S threw e, changed nothing and notified nothing
Refused(m, S, e) ==
  /\ S.err = e
  /\ S.c = m_LabelObjectContainer[m]
  /\ S.h = heap
  /\ S.mods = 0

\* C22: AddLabelObject and PushLabelObject of a null pointer fail with
\* NullArgument, leave the container and the objects as they were and
\* notify nothing (neither call reaches the background value).
C22_NullArgument ==
  \A m \in Maps :
    /\ Refused(m, Inserted(m, <<heap, NULL>>), "NullArgument")
    /\ Refused(m, Pushed(m, <<heap, NULL>>), "NullArgument")

\* C22 witness: a map with two entries and a background value other than
\* zero on which both calls refuse a null pointer.
C22_Witness ==
  /\ Cardinality(Keys(m_LabelObjectContainer["A"])) = 2
  /\ m_BackgroundValue["A"] # 0
  /\ Refused("A", Inserted("A", <<heap, NULL>>), "NullArgument")
  /\ Refused("A", Pushed("A", <<heap, NULL>>), "NullArgument")

\* the call that ended in S returned with an empty container, the objects
\* untouched, and one notification if something was stored, none otherwise
Cleared(m, S) ==
  /\ S.err = "none"
  /\ Keys(S.c) = {}
  /\ S.h = heap
  /\ S.mods = IF Keys(m_LabelObjectContainer[m]) # {} THEN 1 ELSE 0

\* C23: ClearLabels empties the container and notifies if and only if the
\* container was not empty; Initialize and Allocate do exactly the same
\* (none of the three reaches the background value).
C23_ClearLabels ==
  \A m \in Maps :
    /\ Cleared(m, ClearLabelsOp(Enter(m)))
    /\ InitializeOp(Enter(m)) = ClearLabelsOp(Enter(m))
    /\ AllocateOp(Enter(m)) = ClearLabelsOp(Enter(m))

\* C23 witness: a map with two entries and a background value other than
\* zero, which ClearLabels empties with one notification.
C23_Witness ==
  /\ Cardinality(Keys(m_LabelObjectContainer["A"])) = 2
  /\ m_BackgroundValue["A"] # 0
  /\ Keys(ClearLabelsOp(Enter("A")).c) = {}
  /\ ClearLabelsOp(Enter("A")).mods = 1
  /\ AllocateOp(Enter("A")).mods = 1

\* the result of SetLine(idx, length, label) on map m from the current state
Lined(m, idx, length, label) ==
  SetLineOp(Enter(m), m_BackgroundValue[m], idx, length, label)

\* the n positions from p on, as far as the image goes
Run(p, n) == {q \in Pos : \E i \in 0..(n - 1) : q = p + i}

\* C24: SetLine(p, n, L) with L # bg on an empty map makes GetPixel give L
\* on the n positions of the run from p and the background value elsewhere;
\* on any map it makes a new object labelled L with the run when L is no
\* key, and adds the run to the object under L when it is.
C24_SetLine ==
  \A m \in Maps : \A p \in Pos : \A n \in Lengths :
    \A l \in Label \ {m_BackgroundValue[m]} :
      LET c == m_LabelObjectContainer[m]
          bg == m_BackgroundValue[m]
          S == Lined(m, p, n, l)
      IN  /\ S.err = "none"
          /\ Keys(S.c) = Keys(c) \cup {l}
          /\ IF l \in Keys(c)
             THEN S.c = c /\ S.h[c[l]].idx = heap[c[l]].idx \cup Run(p, n)
             ELSE /\ S.c[l] \notin DOMAIN heap
                  /\ S.h[S.c[l]] = [label |-> l, idx |-> Run(p, n)]
          /\ Keys(c) = {}
               => \A q \in Pos :
                    GetPixel(S.h, S.c, bg, q) = IF q \in Run(p, n) THEN l ELSE bg

\* C24 witness: an empty map with a background value other than zero, on
\* which SetLine(0, 1, L) gives position 0 the label L and leaves position 1
\* on the background value.
C24_Witness ==
  \E l \in Label \ {m_BackgroundValue["A"]} :
    LET bg == m_BackgroundValue["A"]
        S == Lined("A", 0, 1, l)
    IN  /\ Keys(m_LabelObjectContainer["A"]) = {}
        /\ bg # 0
        /\ GetPixel(S.h, S.c, bg, 0) = l
        /\ GetPixel(S.h, S.c, bg, 1) = bg

\* C25: RemoveLabel of the background value fails with
\* BackgroundLabelAccess, leaves the container and the objects as they were
\* and notifies nothing.
C25_RemoveBackgroundLabel ==
  \A m \in Maps :
    Refused(m, RemoveLabelOp(Enter(m), m_BackgroundValue[m], m_BackgroundValue[m]),
            "BackgroundLabelAccess")

\* C25 witness: the background value is a key next to another key, and
\* RemoveLabel of it is refused.
C25_Witness ==
  LET c == m_LabelObjectContainer["A"]
      bg == m_BackgroundValue["A"]
  IN  /\ bg \in Keys(c)
      /\ Keys(c) \ {bg} # {}
      /\ Refused("A", RemoveLabelOp(Enter("A"), bg, bg), "BackgroundLabelAccess")

\* what GetLabels() and GetLabelObjects() return on map m in this state:
\* as many entries as keys, the keys in strictly ascending order, and at each
\* place the object stored under the key at that place; the map is unchanged
VectorsOf(m) ==
  LET c == m_LabelObjectContainer[m]
      L == GetLabelsOp(Enter(m))
      O == GetLabelObjectsOp(Enter(m))
  IN  /\ Unchanged(m, L.st) /\ L.st.err = "none"
      /\ Unchanged(m, O.st) /\ O.st.err = "none"
      /\ Len(L.ret) = Cardinality(Keys(c))
      /\ Len(O.ret) = Cardinality(Keys(c))
      /\ {L.ret[i] : i \in DOMAIN L.ret} = Keys(c)
      /\ \A i, j \in DOMAIN L.ret : i < j => L.ret[i] < L.ret[j]
      /\ \A i \in DOMAIN O.ret : O.ret[i] = c[L.ret[i]]

\* the vector of objects the caller holds is after the step what it was
\* before: as long, the same object twice where it was twice, each object
\* with the label it had (no call of NextVectors relabels an object)
SameHeldObjects ==
  /\ Len(res'.objects) = Len(res.objects)
  /\ \A i \in DOMAIN res.objects :
       heap'[res'.objects[i]].label = heap[res.objects[i]].label
  /\ \A i, j \in DOMAIN res.objects :
       (res'.objects[i] = res'.objects[j]) <=> (res.objects[i] = res.objects[j])

\* C26: GetLabels returns the keys in strictly ascending order and
\* GetLabelObjects the objects under those keys in the same order, both as
\* long as the number of label objects; and a vector the caller holds
\* changes only by the call that returns a new one, never by a mutation of
\* the map.
C26_Vectors ==
  /\ [](\A m \in Maps : VectorsOf(m))
  /\ [][/\ res'.labels # res.labels => \E m \in Maps : GetLabels(m)
        /\ ~SameHeldObjects => \E m \in Maps : GetLabelObjects(m)]_vars

\* C26 witness: the caller holds a vector of two labels and a vector of two
\* objects, the map has since lost one of the labels and one of the
\* objects, and GetLabels now returns other labels than the vector held.
C26_Witness ==
  LET c == m_LabelObjectContainer["A"]
  IN  /\ Len(res.labels) = 2
      /\ Len(res.objects) = 2
      /\ \E i \in DOMAIN res.labels : res.labels[i] \notin Keys(c)
      /\ \E i \in DOMAIN res.objects : res.objects[i] \notin Range(c)
      /\ Keys(c) # {}
      /\ GetLabelsOp(Enter("A")).ret # res.labels
      /\ VectorsOf("A")

\* the objects of container c in heap h that contain p, by object
Holders(h, c, p) == {c[k] : k \in Owners(h, c, p)}

\* every object that S still stores has, but for p, the positions it had
OthersKept(S, p) ==
  \A o \in Range(S.c) \cap DOMAIN heap : S.h[o].idx \ {p} = heap[o].idx \ {p}

\* C27: from any state, a SetPixel(p, L) with L # bg that returns leaves
\* the object under L as the only object that contains p, with
\* GetPixel(p) = L; a SetPixel(p, bg) that returns leaves no object that
\* contains p, with GetPixel(p) = bg; either way every surviving object
\* keeps its other positions.
C27_SetPixelPostcondition ==
  \A m \in Maps : \A p \in Pos : \A l \in Label : \A u \in UBOutcomes :
    LET bg == m_BackgroundValue[m]
        S == SetPixelled(m, p, l, u)
    IN  S.err = "none"
          => /\ OthersKept(S, p)
             /\ GetPixel(S.h, S.c, bg, p) = l
             /\ IF l # bg
                THEN l \in Keys(S.c) /\ Holders(S.h, S.c, p) = {S.c[l]}
                ELSE Holders(S.h, S.c, p) = {}

\* the call that ended in S kept every key other than l with its object, and
\* that object with its positions
OtherKeysKept(m, S, l) ==
  \A k \in Keys(m_LabelObjectContainer[m]) \ {l} :
    LET o == m_LabelObjectContainer[m][k]
    IN  /\ k \in Keys(S.c)
        /\ S.c[k] = o
        /\ S.h[o].idx = heap[o].idx

\* C28: AddPixel(p, L), SetLine(p, n, L) and AddLabelObject(o) leave every
\* object stored under a key other than the target label with the positions
\* it had.
C28_NoEviction ==
  \A m \in Maps :
    /\ \A p \in Pos : \A l \in Label :
         /\ OtherKeysKept(m, Added(m, p, l), l)
         /\ \A n \in Lengths : OtherKeysKept(m, Lined(m, p, n, l), l)
    /\ \A arg \in ObjectArgs :
         arg[2] # NULL => OtherKeysKept(m, Inserted(m, arg), GetLabel(arg[1], arg[2]))

\* the result of RemovePixel(idx, label) on map m from the current state
Removed(m, idx, label) == RemovePixelOp(Enter(m), m_BackgroundValue[m], idx, label)

\* the call that ended in S returned, took p out of the object under l and out
\* of no other, deleted the key l exactly when that object became empty,
\* added and removed no other key, and notified
RemovedFromOnly(m, S, p, l) ==
  LET c == m_LabelObjectContainer[m]
      o == c[l]
  IN  /\ S.err = "none"
      /\ S.h[o].idx = heap[o].idx \ {p}
      /\ \A o2 \in Range(c) \ {o} : S.h[o2].idx = heap[o2].idx
      /\ l \in Keys(S.c) <=> S.h[o].idx # {}
      /\ l \in Keys(S.c) => S.c[l] = o
      /\ Keys(S.c) \ {l} = Keys(c) \ {l}
      /\ \A k \in Keys(c) \ {l} : S.c[k] = c[k]
      /\ S.mods >= 1

\* C29: RemovePixel(p, L) with L other than the background value changes
\* nothing and does not notify when L is no key or its object does not
\* contain p; when the object contains p, p is removed from that object only,
\* the key L is deleted exactly when the object became empty, no other key is
\* added or removed, and the call notifies.
C29_RemovePixelFrame ==
  \A m \in Maps : \A p \in Pos : \A l \in Label \ {m_BackgroundValue[m]} :
    LET c == m_LabelObjectContainer[m]
        S == Removed(m, p, l)
    IN  IF l \in Keys(c) /\ HasIndex(heap, c[l], p)
        THEN RemovedFromOnly(m, S, p, l)
        ELSE NoOp(m, S)

\* the call that ended in S used no invalidated iterator and took up every
\* key that map m had at the start of the call, each exactly once
ScannedAll(m, S) ==
  /\ ~S.ub
  /\ Len(S.visits) = Cardinality(Keys(m_LabelObjectContainer[m]))
  /\ {S.visits[i] : i \in DOMAIN S.visits} = Keys(m_LabelObjectContainer[m])

\* C30: SetPixel(p, L) terminates and processes every label object that was
\* in the container at the start of the call exactly once, whatever entries
\* the removals of the scan delete; no entry is skipped and no deleted entry
\* is visited.
C30_ScanCompleteness ==
  \A m \in Maps : \A p \in Pos : \A l \in Label : \A u \in UBOutcomes :
    ScannedAll(m, SetPixelled(m, p, l, u))

\* the label PushLabelObject computes for map m from the current state
Allocated(m) == PushLabel(m_LabelObjectContainer[m], m_BackgroundValue[m])

\* C31: every label that PushLabelObject assigns lies between the minimum and
\* the maximum of the label type and was computed without a step past either
\* end of the range, for every key set and every background value.
C31_NoWrappedLabel ==
  \A m \in Maps :
    Allocated(m).set
      => /\ Allocated(m).label \in LabelMin..LabelMax
         /\ ~Allocated(m).wrapped

\* the state R that a call on map m left, the call having ended with the
\* objects as in h, has in every other map the keys that map had, under each
\* key the object that was there, and the background value that map had
OthersIsolated(m, h, R) ==
  \A x \in Maps \ {m} :
    LET c == m_LabelObjectContainer[x]
    IN  /\ Keys(R.cs[x]) = Keys(c)
        /\ \A k \in Keys(c) : R.heap[R.cs[x][k]] = h[c[k]]
        /\ \A k1, k2 \in Keys(c) : (R.cs[x][k1] = R.cs[x][k2]) <=> (c[k1] = c[k2])
        /\ R.bgs[x] = m_BackgroundValue[x]

\* the call on map m that ended in S leaves the other maps as they were
Isolated(m, S) == OthersIsolated(m, S.h, ReturnOp(m, S))

\* C32: no call on map "A" (SetPixel, AddPixel, RemovePixel, SetLine,
\* AddLabelObject, PushLabelObject, RemoveLabel, ClearLabels, Graft), after
\* "A" has grafted map "B" or at any other time, changes the set of keys of
\* "B", the object stored under each of them, or the background value of "B".
C32_GraftIsolation ==
  /\ \A p \in Pos : \A l \in Label :
       /\ \A u \in UBOutcomes : Isolated("A", SetPixelled("A", p, l, u))
       /\ Isolated("A", Added("A", p, l))
       /\ Isolated("A", Removed("A", p, l))
       /\ \A n \in Lengths : Isolated("A", Lined("A", p, n, l))
  /\ \A arg \in PushArgs :
       /\ Isolated("A", Inserted("A", arg))
       /\ Isolated("A", Pushed("A", arg))
  /\ \A l \in Label :
       Isolated("A", RemoveLabelOp(Enter("A"), m_BackgroundValue["A"], l))
  /\ Isolated("A", ClearLabelsOp(Enter("A")))
  /\ \A data \in GraftSources : \A sm \in BOOLEAN :
       OthersIsolated("A", heap, GraftResult("A", data, sm))

\* C32 witness: map "A" has grafted map "B", which holds objects and has a
\* background value other than zero; ClearLabels on "A" then empties "A" and
\* leaves "B" its keys.
C32_Witness ==
  /\ Keys(m_LabelObjectContainer["B"]) # {}
  /\ m_LabelObjectContainer["A"] = m_LabelObjectContainer["B"]
  /\ m_BackgroundValue["A"] = m_BackgroundValue["B"]
  /\ m_BackgroundValue["B"] # 0
  /\ Keys(ReturnOp("A", ClearLabelsOp(Enter("A"))).cs["A"]) = {}
  /\ Keys(ReturnOp("A", ClearLabelsOp(Enter("A"))).cs["B"])
       = Keys(m_LabelObjectContainer["B"])

\* the result of RemoveLabel(label) on map m from the current state
LabelRemoved(m, label) == RemoveLabelOp(Enter(m), m_BackgroundValue[m], label)

\* C33: RemoveLabel(L) with L other than the background value removes the
\* key L when it is present and leaves every other entry, every object and
\* the background value as they were; when L is no key the container is
\* unchanged; in both cases the call notifies.
C33_RemoveLabel ==
  \A m \in Maps : \A l \in Label \ {m_BackgroundValue[m]} :
    LET c == m_LabelObjectContainer[m]
        S == LabelRemoved(m, l)
    IN  /\ S.err = "none"
        /\ Keys(S.c) = Keys(c) \ {l}
        /\ \A k \in Keys(c) \ {l} : S.c[k] = c[k]
        /\ S.h = heap
        /\ ReturnOp(m, S).bgs = m_BackgroundValue
        /\ S.mods = 1

\* C33 witness: a map with two keys and a background value other than zero,
\* where RemoveLabel of one key leaves the other alone, and RemoveLabel of a
\* label that is neither a key nor the background value changes nothing and
\* notifies.
C33_Witness ==
  LET c == m_LabelObjectContainer["A"]
      bg == m_BackgroundValue["A"]
  IN  /\ Cardinality(Keys(c)) = 2
      /\ bg # 0
      /\ \E l \in Keys(c) \ {bg} : Keys(LabelRemoved("A", l).c) = Keys(c) \ {l}
      /\ \E l \in Label \ (Keys(c) \cup {bg}) :
           LabelRemoved("A", l).c = c /\ LabelRemoved("A", l).mods = 1

====
